---- MODULE Spec2Model ----
(***************************************************************************)
(* Device Directory Store of edgex-go                                      *)
(* (internal/pkg/v2/infrastructure/redis/device.go).                       *)
(*                                                                         *)
(* The Redis keyspace is the variable db: its string keys (SET/GET/DEL),   *)
(* its sorted sets (ZADD/ZREM/ZREVRANGE) and its hashes (HSET/HGET/HDEL).  *)
(* A MULTI ... EXEC block is a sequence of commands applied in one step.   *)
(*                                                                         *)
(* Spec      : callers do not overlap; every handler is one action.        *)
(* SpecQuery : Spec's creates and deletes, and the three group queries.    *)
(* SpecConc  : several callers; every round trip to Redis is one action.   *)
(*                                                                         *)
(* A device id n stands for the id string "dn"; the order of the numbers   *)
(* is the lexicographic order of the strings (Redis breaks score ties by   *)
(* the members' byte order).                                               *)
(***************************************************************************)
EXTENDS Integers, Sequences, FiniteSets, TLC

VARIABLES db, clock, ret, pc, local

vars == <<db, clock, ret, pc, local>>

(* ------------------------------ bounds -------------------------------- *)

NumIds == 2
MaxTime == 2
NumCallers == 2
MaxOffset == 2
MaxLimit == 2

Ids == 1..NumIds
Names == {"therm-1", "x"}
ServiceNames == {"svc1", "svc2"}
ProfileNames == {"prof1", "prof2"}
LabelNames == {"floor1", "temp"}
\* the label lists a caller passes: none, one, two distinct, one repeated
LabelLists == {<<>>, <<"floor1">>, <<"floor1", "temp">>, <<"temp", "temp">>}
\* Created as the caller passes it: 0 (unset) or an externally known time
CreatedInputs == {0, 7}
Callers == 1..NumCallers

\* the profile the devices of a service use
ProfileOf(s) == IF s = "svc1" THEN "prof1" ELSE "prof2"

\* models.Device as the callers of addDevice pass it (Modified is overwritten);
\* a caller that preserves an external creation time passes no labels
DeviceInputs ==
    {d \in [Id : Ids, Name : Names, ServiceName : ServiceNames,
            ProfileName : ProfileNames, Labels : LabelLists,
            Created : CreatedInputs, Modified : {0}] :
        /\ d.ProfileName = ProfileOf(d.ServiceName)
        /\ d.Created = 0 \/ (d.Labels = <<>> /\ d.ServiceName = "svc1")}

\* the inputs of the creates that fill the groups the queries read
QueryInputs == {d \in DeviceInputs : d.Created = 0}

Offsets == 0..MaxOffset
Limits == (-1)..MaxLimit

\* the inputs of the concurrent callers
ConcInputs ==
    {d \in DeviceInputs : d.ProfileName = "prof1" /\ d.Created = 0
                          /\ d.Labels = <<"floor1">>
                          /\ d.ServiceName = "svc1"}

(* ------------------------------- keys --------------------------------- *)

\* strings.Join(targets, DBKeySeparator): a key is the list of its parts
CreateKey(prefix, target) == Append(prefix, target)

DeviceCollection == <<"md|dv">>
DeviceCollectionName == CreateKey(DeviceCollection, "name")
DeviceCollectionLabel == CreateKey(DeviceCollection, "label")
DeviceCollectionServiceName ==
    CreateKey(CreateKey(DeviceCollection, "service"), "name")
DeviceCollectionProfileName ==
    CreateKey(CreateKey(DeviceCollection, "profile"), "name")

deviceStoredKey(id) == CreateKey(DeviceCollection, id)

StoredKeys == {deviceStoredKey(id) : id \in Ids}
ServiceKeys == {CreateKey(DeviceCollectionServiceName, s) : s \in ServiceNames}
ProfileKeys == {CreateKey(DeviceCollectionProfileName, s) : s \in ProfileNames}
LabelKeys == {CreateKey(DeviceCollectionLabel, l) : l \in LabelNames}
ZSetKeys == {DeviceCollection} \cup ServiceKeys \cup ProfileKeys \cup LabelKeys

(* ----------------------------- encoding ------------------------------- *)

\* mutant of Marshal: the labels are left out of the JSON object
Marshal_NoLabels(d) ==
    [id |-> d.Id, name |-> d.Name, serviceName |-> d.ServiceName,
     profileName |-> d.ProfileName, labels |-> <<>>,
     created |-> d.Created, modified |-> d.Modified]

\* json.Marshal(d): the JSON object of a models.Device, keyed by its tags
Marshal(d) ==
    [id |-> d.Id, name |-> d.Name, serviceName |-> d.ServiceName,
     profileName |-> d.ProfileName, labels |-> d.Labels,
     created |-> d.Created, modified |-> d.Modified]

\* json.Unmarshal(in, &device)
Unmarshal(b) ==
    [Id |-> b.id, Name |-> b.name, ServiceName |-> b.serviceName,
     ProfileName |-> b.profileName, Labels |-> b.labels,
     Created |-> b.created, Modified |-> b.modified]

\* the zero value of models.Device
ZeroDevice ==
    [Id |-> 0, Name |-> "", ServiceName |-> "", ProfileName |-> "",
     Labels |-> <<>>, Created |-> 0, Modified |-> 0]

(* ------------------------ the Redis substrate ------------------------- *)

Restrict(f, S) == [x \in S |-> f[x]]

EmptyDB ==
    [strings |-> <<>>,
     zsets |-> [k \in ZSetKeys |-> <<>>],
     hashes |-> [k \in {DeviceCollectionName} |-> <<>>]]

\* mutant of Apply: HSET sets a field only when it is absent (HSETNX)
Apply_HSetNX(d, c) ==
    CASE c.cmd = "SET" ->
           [d EXCEPT !.strings = (c.key :> c.val) @@ @]
      [] c.cmd = "DEL" ->
           [d EXCEPT !.strings = Restrict(@, DOMAIN @ \ {c.key})]
      [] c.cmd = "ZADD" ->
           [d EXCEPT !.zsets[c.key] = (c.member :> c.score) @@ @]
      [] c.cmd = "ZREM" ->
           [d EXCEPT !.zsets[c.key] = Restrict(@, DOMAIN @ \ {c.member})]
      [] c.cmd = "HSET" ->
           [d EXCEPT !.hashes[c.key] = @ @@ (c.field :> c.val)]
      [] c.cmd = "HDEL" ->
           [d EXCEPT !.hashes[c.key] = Restrict(@, DOMAIN @ \ {c.field})]

\* one queued command applied to the keyspace
Apply(d, c) ==
    CASE c.cmd = "SET" ->
           [d EXCEPT !.strings = (c.key :> c.val) @@ @]
      [] c.cmd = "DEL" ->
           [d EXCEPT !.strings = Restrict(@, DOMAIN @ \ {c.key})]
      [] c.cmd = "ZADD" ->
           [d EXCEPT !.zsets[c.key] = (c.member :> c.score) @@ @]
      [] c.cmd = "ZREM" ->
           [d EXCEPT !.zsets[c.key] = Restrict(@, DOMAIN @ \ {c.member})]
      [] c.cmd = "HSET" ->
           [d EXCEPT !.hashes[c.key] = (c.field :> c.val) @@ @]
      [] c.cmd = "HDEL" ->
           [d EXCEPT !.hashes[c.key] = Restrict(@, DOMAIN @ \ {c.field})]

\* mutant of Exec: only the first command takes effect in the step
Exec_FirstOnly(d, cmds) == IF cmds = <<>> THEN d ELSE Apply(d, Head(cmds))

\* MULTI, the queued commands, EXEC: all of them, in order, in one step
RECURSIVE Exec(_, _)
Exec(d, cmds) ==
    IF cmds = <<>> THEN d ELSE Exec(Apply(d, Head(cmds)), Tail(cmds))

\* ZREVRANGE's order: by descending score, ties by descending member
Top(z) ==
    CHOOSE m \in DOMAIN z :
        \A n \in DOMAIN z :
            n = m \/ z[n] < z[m] \/ (z[n] = z[m] /\ n[2] < m[2])

RECURSIVE RevList(_)
RevList(z) ==
    IF DOMAIN z = {} THEN <<>>
    ELSE <<Top(z)>> \o RevList(Restrict(z, DOMAIN z \ {Top(z)}))

\* ZREVRANGE key start stop: zero-based inclusive ranks, a negative rank
\* counts from the end (-1 is the last member)
ZRevRange(z, start, stop) ==
    LET all == RevList(z)
        n == Len(all)
        s0 == IF start < 0 THEN n + start ELSE start
        e0 == IF stop < 0 THEN n + stop ELSE stop
        s1 == IF s0 < 0 THEN 0 ELSE s0
        e1 == IF e0 >= n THEN n - 1 ELSE e0
    IN IF s1 > e1 \/ s1 >= n THEN <<>> ELSE SubSeq(all, s1 + 1, e1 + 1)

\* a missing key in an MGET reply: no bytes
Nil == <<>>
IsNil(b) == DOMAIN b = {}

(* ----------------------------- error kinds ---------------------------- *)

NoError == ""
KindDuplicateName == "KindDuplicateName"
KindDatabaseError == "KindDatabaseError"
KindEntityDoesNotExist == "KindEntityDoesNotExist"

\* where a round trip to Redis fails in a call (a connection fault)
Faults == {"none", "first", "second", "exec"}

(* ----------------- helpers of the package (queries) ------------------- *)

\* objectIdExists: membership of the stored key in the Id Membership Index
objectIdExists(d, storedKey) == storedKey \in DOMAIN d.zsets[DeviceCollection]

\* objectNameExists: HEXISTS of the name in the Name Uniqueness Index
objectNameExists(d, hashKey, name) == name \in DOMAIN d.hashes[hashKey]

\* getObjectById: GET of the stored key, decoded
getObjectById(d, storedKey) ==
    IF storedKey \in DOMAIN d.strings
    THEN [kind |-> NoError, device |-> Unmarshal(d.strings[storedKey])]
    ELSE [kind |-> KindEntityDoesNotExist, device |-> ZeroDevice]

\* getObjectByHash: HGET of the field, then GET of the stored key it names
getObjectByHash(d, hashKey, field) ==
    IF field \in DOMAIN d.hashes[hashKey]
    THEN getObjectById(d, d.hashes[hashKey][field])
    ELSE [kind |-> KindEntityDoesNotExist, device |-> ZeroDevice]

\* MGET of the stored keys
getObjectsByIds(d, ids) ==
    [i \in 1..Len(ids) |->
        IF ids[i] \in DOMAIN d.strings THEN d.strings[ids[i]] ELSE Nil]

\* getObjectsByRevRange: ZREVRANGE key start end, then MGET
getObjectsByRevRange(d, key, start, end) ==
    getObjectsByIds(d, ZRevRange(d.zsets[key], start, end))

(* ----------------------------- device.go ------------------------------ *)

\* mutant of deviceNameExists: the check never finds the name
deviceNameExists_Never(d, name) == objectNameExists(d, DeviceCollectionName, "")

deviceNameExists(d, name) == objectNameExists(d, DeviceCollectionName, name)

deviceIdExists(d, id) == objectIdExists(d, deviceStoredKey(id))

\* mutant of Stamped: Created is assigned whether it is set or not
Stamped_AlwaysCreated(dev, ts) == [dev EXCEPT !.Created = ts, !.Modified = ts]

\* the device addDevice stores: Created kept when set, Modified := ts
Stamped(dev, ts) ==
    [dev EXCEPT !.Created = IF dev.Created = 0 THEN ts ELSE dev.Created,
                !.Modified = ts]

\* mutant of addDeviceCmds: the label loop stops after the first label
addDeviceCmds_FirstLabel(dev) ==
    LET storedKey == deviceStoredKey(dev.Id) IN
    << [cmd |-> "SET", key |-> storedKey, val |-> Marshal(dev)],
       [cmd |-> "ZADD", key |-> DeviceCollection, score |-> 0,
        member |-> storedKey],
       [cmd |-> "HSET", key |-> DeviceCollectionName, field |-> dev.Name,
        val |-> storedKey],
       [cmd |-> "ZADD", key |-> CreateKey(DeviceCollectionServiceName, dev.ServiceName),
        score |-> dev.Modified, member |-> storedKey],
       [cmd |-> "ZADD", key |-> CreateKey(DeviceCollectionProfileName, dev.ProfileName),
        score |-> dev.Modified, member |-> storedKey] >>
    \o [i \in 1..(IF dev.Labels = <<>> THEN 0 ELSE 1) |->
          [cmd |-> "ZADD", key |-> CreateKey(DeviceCollectionLabel, dev.Labels[i]),
           score |-> dev.Modified, member |-> storedKey]]

\* mutant of addDeviceCmds: the buckets are scored 0, as the Id Membership
\* Index is
addDeviceCmds_ScoreZero(dev) ==
    LET storedKey == deviceStoredKey(dev.Id) IN
    << [cmd |-> "SET", key |-> storedKey, val |-> Marshal(dev)],
       [cmd |-> "ZADD", key |-> DeviceCollection, score |-> 0,
        member |-> storedKey],
       [cmd |-> "HSET", key |-> DeviceCollectionName, field |-> dev.Name,
        val |-> storedKey],
       [cmd |-> "ZADD", key |-> CreateKey(DeviceCollectionServiceName, dev.ServiceName),
        score |-> 0, member |-> storedKey],
       [cmd |-> "ZADD", key |-> CreateKey(DeviceCollectionProfileName, dev.ProfileName),
        score |-> 0, member |-> storedKey] >>
    \o [i \in 1..Len(dev.Labels) |->
          [cmd |-> "ZADD", key |-> CreateKey(DeviceCollectionLabel, dev.Labels[i]),
           score |-> 0, member |-> storedKey]]

\* the commands addDevice queues between MULTI and EXEC (dev is stamped)
addDeviceCmds(dev) ==
    LET storedKey == deviceStoredKey(dev.Id) IN
    << [cmd |-> "SET", key |-> storedKey, val |-> Marshal(dev)],
       [cmd |-> "ZADD", key |-> DeviceCollection, score |-> 0,
        member |-> storedKey],
       [cmd |-> "HSET", key |-> DeviceCollectionName, field |-> dev.Name,
        val |-> storedKey],
       [cmd |-> "ZADD", key |-> CreateKey(DeviceCollectionServiceName, dev.ServiceName),
        score |-> dev.Modified, member |-> storedKey],
       [cmd |-> "ZADD", key |-> CreateKey(DeviceCollectionProfileName, dev.ProfileName),
        score |-> dev.Modified, member |-> storedKey] >>
    \o [i \in 1..Len(dev.Labels) |->
          [cmd |-> "ZADD", key |-> CreateKey(DeviceCollectionLabel, dev.Labels[i]),
           score |-> dev.Modified, member |-> storedKey]]

\* mutant of addDevice: the batch is sent before the name pre-check
addDevice_WriteFirst(d, dev, ts, fault) ==
    IF fault = "first" THEN
        [db |-> d, kind |-> KindDatabaseError,
         msg |-> "device existence check by id failed"]
    ELSE IF deviceIdExists(d, dev.Id) THEN
        [db |-> d, kind |-> KindDuplicateName, msg |-> "device id already exists"]
    ELSE IF fault = "second" THEN
        [db |-> d, kind |-> KindDatabaseError,
         msg |-> "device existence check by name failed"]
    ELSE IF fault = "exec" THEN
        [db |-> d, kind |-> KindDatabaseError, msg |-> "device creation failed"]
    ELSE IF deviceNameExists(d, dev.Name) THEN
        [db |-> Exec(d, addDeviceCmds(Stamped(dev, ts))),
         kind |-> KindDuplicateName, msg |-> "device name already exists"]
    ELSE
        [db |-> Exec(d, addDeviceCmds(Stamped(dev, ts))), kind |-> NoError,
         msg |-> ""]

\* mutant of addDevice: a failed batch is sent a second time
addDevice_Retry(d, dev, ts, fault) ==
    IF fault = "first" THEN
        [db |-> d, kind |-> KindDatabaseError,
         msg |-> "device existence check by id failed"]
    ELSE IF deviceIdExists(d, dev.Id) THEN
        [db |-> d, kind |-> KindDuplicateName, msg |-> "device id already exists"]
    ELSE IF fault = "second" THEN
        [db |-> d, kind |-> KindDatabaseError,
         msg |-> "device existence check by name failed"]
    ELSE IF deviceNameExists(d, dev.Name) THEN
        [db |-> d, kind |-> KindDuplicateName, msg |-> "device name already exists"]
    ELSE IF fault = "exec" THEN
        [db |-> Exec(d, addDeviceCmds(Stamped(dev, ts))),
         kind |-> KindDatabaseError, msg |-> "device creation failed"]
    ELSE
        [db |-> Exec(d, addDeviceCmds(Stamped(dev, ts))), kind |-> NoError,
         msg |-> ""]

\* addDevice as one call: the keyspace after it and the error it returns
addDevice(d, dev, ts, fault) ==
    IF fault = "first" THEN
        [db |-> d, kind |-> KindDatabaseError,
         msg |-> "device existence check by id failed"]
    ELSE IF deviceIdExists(d, dev.Id) THEN
        [db |-> d, kind |-> KindDuplicateName, msg |-> "device id already exists"]
    ELSE IF fault = "second" THEN
        [db |-> d, kind |-> KindDatabaseError,
         msg |-> "device existence check by name failed"]
    ELSE IF deviceNameExists(d, dev.Name) THEN
        [db |-> d, kind |-> KindDuplicateName, msg |-> "device name already exists"]
    ELSE IF fault = "exec" THEN
        [db |-> d, kind |-> KindDatabaseError, msg |-> "device creation failed"]
    ELSE
        [db |-> Exec(d, addDeviceCmds(Stamped(dev, ts))), kind |-> NoError,
         msg |-> ""]

deviceById(d, id) == getObjectById(d, deviceStoredKey(id))

deviceByName(d, name) == getObjectByHash(d, DeviceCollectionName, name)

\* mutant of deleteDeviceCmds: the ZREM of the Id Membership Index is missing
deleteDeviceCmds_NoIdRemove(device) ==
    LET storedKey == deviceStoredKey(device.Id) IN
    << [cmd |-> "DEL", key |-> storedKey],
       [cmd |-> "HDEL", key |-> DeviceCollectionName, field |-> device.Name],
       [cmd |-> "ZREM", key |-> CreateKey(DeviceCollectionServiceName, device.ServiceName),
        member |-> storedKey],
       [cmd |-> "ZREM", key |-> CreateKey(DeviceCollectionProfileName, device.ProfileName),
        member |-> storedKey] >>
    \o [i \in 1..Len(device.Labels) |->
          [cmd |-> "ZREM", key |-> CreateKey(DeviceCollectionLabel, device.Labels[i]),
           member |-> storedKey]]

\* mutant of deleteDeviceCmds: the HDEL of the Name Uniqueness Index is missing
deleteDeviceCmds_NoNameRemove(device) ==
    LET storedKey == deviceStoredKey(device.Id) IN
    << [cmd |-> "DEL", key |-> storedKey],
       [cmd |-> "ZREM", key |-> DeviceCollection, member |-> storedKey],
       [cmd |-> "ZREM", key |-> CreateKey(DeviceCollectionServiceName, device.ServiceName),
        member |-> storedKey],
       [cmd |-> "ZREM", key |-> CreateKey(DeviceCollectionProfileName, device.ProfileName),
        member |-> storedKey] >>
    \o [i \in 1..Len(device.Labels) |->
          [cmd |-> "ZREM", key |-> CreateKey(DeviceCollectionLabel, device.Labels[i]),
           member |-> storedKey]]

\* mutant of deleteDeviceCmds: the ZREM of the service bucket is missing
deleteDeviceCmds_NoServiceRemove(device) ==
    LET storedKey == deviceStoredKey(device.Id) IN
    << [cmd |-> "DEL", key |-> storedKey],
       [cmd |-> "ZREM", key |-> DeviceCollection, member |-> storedKey],
       [cmd |-> "HDEL", key |-> DeviceCollectionName, field |-> device.Name],
       [cmd |-> "ZREM", key |-> CreateKey(DeviceCollectionProfileName, device.ProfileName),
        member |-> storedKey] >>
    \o [i \in 1..Len(device.Labels) |->
          [cmd |-> "ZREM", key |-> CreateKey(DeviceCollectionLabel, device.Labels[i]),
           member |-> storedKey]]

\* the commands deleteDevice queues between MULTI and EXEC
deleteDeviceCmds(device) ==
    LET storedKey == deviceStoredKey(device.Id) IN
    << [cmd |-> "DEL", key |-> storedKey],
       [cmd |-> "ZREM", key |-> DeviceCollection, member |-> storedKey],
       [cmd |-> "HDEL", key |-> DeviceCollectionName, field |-> device.Name],
       [cmd |-> "ZREM", key |-> CreateKey(DeviceCollectionServiceName, device.ServiceName),
        member |-> storedKey],
       [cmd |-> "ZREM", key |-> CreateKey(DeviceCollectionProfileName, device.ProfileName),
        member |-> storedKey] >>
    \o [i \in 1..Len(device.Labels) |->
          [cmd |-> "ZREM", key |-> CreateKey(DeviceCollectionLabel, device.Labels[i]),
           member |-> storedKey]]

\* mutant of deleteDevice: the label loop of the batch is skipped
deleteDevice_KeepLabels(d, device, fault) ==
    IF fault = "exec" THEN
        [db |-> d, kind |-> KindDatabaseError, msg |-> "device deletion failed"]
    ELSE
        [db |-> Exec(d, SubSeq(deleteDeviceCmds(device), 1, 5)),
         kind |-> NoError, msg |-> ""]

deleteDevice(d, device, fault) ==
    IF fault = "exec" THEN
        [db |-> d, kind |-> KindDatabaseError, msg |-> "device deletion failed"]
    ELSE
        [db |-> Exec(d, deleteDeviceCmds(device)), kind |-> NoError, msg |-> ""]

\* mutant of deleteResolved: the error of the resolution is not looked at
deleteResolved_IgnoreErr(d, r, fault) ==
    IF fault = "first" THEN
        [db |-> d, kind |-> KindDatabaseError, msg |-> "query object failed"]
    ELSE deleteDevice(d, r.device, fault)

\* deleteDeviceById / deleteDeviceByName after the resolution r
deleteResolved(d, r, fault) ==
    IF fault = "first" THEN
        [db |-> d, kind |-> KindDatabaseError, msg |-> "query object failed"]
    ELSE IF r.kind # NoError THEN
        [db |-> d, kind |-> r.kind, msg |-> "object doesn't exist in the database"]
    ELSE deleteDevice(d, r.device, fault)

deleteDeviceById(d, id, fault) == deleteResolved(d, deviceById(d, id), fault)

deleteDeviceByName(d, name, fault) ==
    deleteResolved(d, deviceByName(d, name), fault)

\* getObjectsByLabelsAndSomeRange: without labels the range of the whole
\* collection; with labels the members common to every label bucket, in
\* the order of their score, and the same range of them
getObjectsByLabelsAndSomeRange(d, key, labels, start, end) ==
    IF labels = <<>> THEN getObjectsByIds(d, ZRevRange(d.zsets[key], start, end))
    ELSE
        LET bucket(i) == d.zsets[CreateKey(CreateKey(key, "label"), labels[i])]
            common == {m \in DOMAIN bucket(1) :
                          \A i \in 1..Len(labels) : m \in DOMAIN bucket(i)}
        IN getObjectsByIds(d, ZRevRange(Restrict(bucket(1), common), start, end))

\* mutant of RangeEnd: limit -1 is not told apart from the other limits
RangeEnd_NoAll(offset, limit) == offset + limit - 1

\* lines 162-165, 185-188, 208-211: the last rank of the range
RangeEnd(offset, limit) == IF limit = -1 THEN limit ELSE offset + limit - 1

\* lines 171-180, 194-203, 217-226: the objects decoded, or none of them
decodeDevices(objects) ==
    IF \E i \in 1..Len(objects) : IsNil(objects[i]) THEN
        [devices |-> <<>>, kind |-> KindDatabaseError,
         msg |-> "device format parsing failed from the database"]
    ELSE
        [devices |-> [i \in 1..Len(objects) |-> Unmarshal(objects[i])],
         kind |-> NoError, msg |-> ""]

QueryFailed ==
    [devices |-> <<>>, kind |-> KindDatabaseError, msg |-> "query objects failed"]

\* mutant of devicesByServiceName: the range starts at rank 0, not at offset
devicesByServiceName_NoOffset(d, offset, limit, name, fault) ==
    IF fault = "first" THEN QueryFailed
    ELSE decodeDevices(getObjectsByRevRange(d,
             CreateKey(DeviceCollectionServiceName, name), 0,
             RangeEnd(offset, limit)))

devicesByServiceName(d, offset, limit, name, fault) ==
    IF fault = "first" THEN QueryFailed
    ELSE decodeDevices(getObjectsByRevRange(d,
             CreateKey(DeviceCollectionServiceName, name), offset,
             RangeEnd(offset, limit)))

\* mutant of devicesByLabels: only the first label is handed to the helper
devicesByLabels_FirstLabel(d, offset, limit, labels, fault) ==
    IF fault = "first" THEN QueryFailed
    ELSE decodeDevices(getObjectsByLabelsAndSomeRange(d, DeviceCollection,
             IF labels = <<>> THEN labels ELSE <<labels[1]>>, offset,
             RangeEnd(offset, limit)))

devicesByLabels(d, offset, limit, labels, fault) ==
    IF fault = "first" THEN QueryFailed
    ELSE decodeDevices(getObjectsByLabelsAndSomeRange(d, DeviceCollection,
             labels, offset, RangeEnd(offset, limit)))

devicesByProfileName(d, offset, limit, profileName, fault) ==
    IF fault = "first" THEN QueryFailed
    ELSE decodeDevices(getObjectsByRevRange(d,
             CreateKey(DeviceCollectionProfileName, profileName), offset,
             RangeEnd(offset, limit)))

(* --------------------- Spec: calls do not overlap --------------------- *)

Init ==
    /\ db = EmptyDB
    /\ clock = 1
    /\ ret = [op |-> "", kind |-> NoError, msg |-> "", devices |-> <<>>]
    /\ pc = [p \in Callers |-> "idle"]
    /\ local = [p \in Callers |-> ZeroDevice]

\* common.MakeTimestamp() reads the wall clock, which only moves on
Tick ==
    /\ clock < MaxTime
    /\ clock' = clock + 1
    /\ UNCHANGED <<db, ret, pc, local>>

AddDevice(dev) ==
    \E fault \in Faults :
        LET r == addDevice(db, dev, clock, fault) IN
        /\ fault = "none" \/ r.kind = KindDatabaseError
        /\ db' = r.db
        /\ ret' = [op |-> "addDevice", kind |-> r.kind, msg |-> r.msg,
                   devices |-> <<>>]
        /\ UNCHANGED <<clock, pc, local>>

DeleteDeviceById(id) ==
    \E fault \in Faults :
        LET r == deleteDeviceById(db, id, fault) IN
        /\ fault = "none" \/ r.kind = KindDatabaseError
        /\ db' = r.db
        /\ ret' = [op |-> "deleteDeviceById", kind |-> r.kind, msg |-> r.msg,
                   devices |-> <<>>]
        /\ UNCHANGED <<clock, pc, local>>

DeleteDeviceByName(name) ==
    \E fault \in Faults :
        LET r == deleteDeviceByName(db, name, fault) IN
        /\ fault = "none" \/ r.kind = KindDatabaseError
        /\ db' = r.db
        /\ ret' = [op |-> "deleteDeviceByName", kind |-> r.kind, msg |-> r.msg,
                   devices |-> <<>>]
        /\ UNCHANGED <<clock, pc, local>>

Next ==
    \/ Tick
    \/ \E dev \in DeviceInputs : AddDevice(dev)
    \/ \E id \in Ids : DeleteDeviceById(id)
    \/ \E name \in Names : DeleteDeviceByName(name)

Spec == Init /\ [][Next]_vars

(* ------------- SpecQuery: creates, deletes, then queries -------------- *)

QueryFaults == {"none", "first"}

DevicesByServiceName(offset, limit, name) ==
    \E fault \in QueryFaults :
        LET r == devicesByServiceName(db, offset, limit, name, fault) IN
        /\ ret' = [op |-> "devicesByServiceName", kind |-> r.kind,
                   msg |-> r.msg, devices |-> r.devices]
        /\ UNCHANGED <<db, clock, pc, local>>

DevicesByLabels(offset, limit, labels) ==
    \E fault \in QueryFaults :
        LET r == devicesByLabels(db, offset, limit, labels, fault) IN
        /\ ret' = [op |-> "devicesByLabels", kind |-> r.kind,
                   msg |-> r.msg, devices |-> r.devices]
        /\ UNCHANGED <<db, clock, pc, local>>

DevicesByProfileName(offset, limit, profileName) ==
    \E fault \in QueryFaults :
        LET r == devicesByProfileName(db, offset, limit, profileName, fault) IN
        /\ ret' = [op |-> "devicesByProfileName", kind |-> r.kind,
                   msg |-> r.msg, devices |-> r.devices]
        /\ UNCHANGED <<db, clock, pc, local>>

NextQuery ==
    \/ Tick
    \/ \E dev \in QueryInputs : AddDevice(dev)
    \/ \E id \in Ids : DeleteDeviceById(id)
    \/ \E offset \in Offsets, limit \in Limits, name \in ServiceNames :
          DevicesByServiceName(offset, limit, name)
    \/ \E offset \in Offsets, limit \in Limits, labels \in LabelLists :
          DevicesByLabels(offset, limit, labels)
    \/ \E offset \in Offsets, limit \in Limits, name \in ProfileNames :
          DevicesByProfileName(offset, limit, name)

SpecQuery == Init /\ [][NextQuery]_vars

(* ------------- SpecConc: one action per round trip to Redis ----------- *)

\* the call of caller p returns and its locals die (ret keeps the error of
\* the non-overlapping calls of Spec only)
Return(p) ==
    /\ pc' = [pc EXCEPT ![p] = "idle"]
    /\ local' = [local EXCEPT ![p] = ZeroDevice]
    /\ UNCHANGED ret

\* addDevice, lines 54-59: the id pre-check
AddIdExists(p, dev) ==
    /\ pc[p] = "idle"
    /\ UNCHANGED <<db, clock>>
    /\ \E fault \in BOOLEAN :
        IF fault THEN
            Return(p)
        ELSE IF deviceIdExists(db, dev.Id) THEN
            Return(p)
        ELSE
            /\ pc' = [pc EXCEPT ![p] = "addNameExists"]
            /\ local' = [local EXCEPT ![p] = dev]
            /\ UNCHANGED ret

\* addDevice, lines 61-72: the name pre-check, then the timestamp (the clock
\* does not move while the calls overlap, so reading it is no step of its own)
AddNameExists(p) ==
    /\ pc[p] = "addNameExists"
    /\ UNCHANGED <<db, clock>>
    /\ \E fault \in BOOLEAN :
        IF fault THEN
            Return(p)
        ELSE IF deviceNameExists(db, local[p].Name) THEN
            Return(p)
        ELSE
            /\ pc' = [pc EXCEPT ![p] = "addExec"]
            /\ local' = [local EXCEPT ![p] = Stamped(local[p], clock)]
            /\ UNCHANGED ret

\* addDevice, lines 79-94: the batch
AddExec(p) ==
    /\ pc[p] = "addExec"
    /\ UNCHANGED clock
    /\ \E fault \in BOOLEAN :
        IF fault THEN
            /\ UNCHANGED db
            /\ Return(p)
        ELSE
            /\ db' = Exec(db, addDeviceCmds(local[p]))
            /\ Return(p)

\* deleteDeviceById / deleteDeviceByName: the resolution r of the record
DelResolve(p, r) ==
    /\ pc[p] = "idle"
    /\ UNCHANGED <<db, clock>>
    /\ \E fault \in BOOLEAN :
        IF fault THEN
            Return(p)
        ELSE IF r.kind # NoError THEN
            Return(p)
        ELSE
            /\ pc' = [pc EXCEPT ![p] = "delExec"]
            /\ local' = [local EXCEPT ![p] = r.device]
            /\ UNCHANGED ret

DelByIdResolve(p, id) == DelResolve(p, deviceById(db, id))

DelByNameResolve(p, name) ==
    DelResolve(p, deviceByName(db, name))

\* deleteDevice, lines 142-158: the batch
DelExec(p) ==
    /\ pc[p] = "delExec"
    /\ UNCHANGED clock
    /\ \E fault \in BOOLEAN :
        LET r == deleteDevice(db, local[p], IF fault THEN "exec" ELSE "none") IN
        /\ db' = r.db
        /\ Return(p)

\* the calls overlap within one reading of the clock: no Tick
NextConc ==
    \/ \E p \in Callers, dev \in ConcInputs : AddIdExists(p, dev)
    \/ \E p \in Callers : AddNameExists(p)
    \/ \E p \in Callers : AddExec(p)
    \/ \E p \in Callers, id \in Ids : DelByIdResolve(p, id)
    \/ \E p \in Callers, name \in Names : DelByNameResolve(p, name)
    \/ \E p \in Callers : DelExec(p)

SpecConc == Init /\ [][NextConc]_vars

(* ------------------------------ claims -------------------------------- *)

Range(f) == {f[i] : i \in DOMAIN f}

\* the record stored under the stored key k
Stored(d, k) == Unmarshal(d.strings[k])

ServiceKey(s) == CreateKey(DeviceCollectionServiceName, s)
ProfileKey(s) == CreateKey(DeviceCollectionProfileName, s)
LabelKey(l) == CreateKey(DeviceCollectionLabel, l)
GroupKeys == ServiceKeys \cup ProfileKeys \cup LabelKeys

\* the error kind the specification names for a duplicate id
DuplicateId == "DuplicateId"

\* the id is a member of the Id Membership Index
IdPresent(d, id) == deviceStoredKey(id) \in DOMAIN d.zsets[DeviceCollection]

\* a stored record holds the name
NameHeld(d, name) == \E k \in DOMAIN d.strings : Stored(d, k).Name = name

\* C1: in every reachable state, a create whose id is already in the Id
\* Membership Index fails with the kind DuplicateId, whatever its name is
\* (unless a round trip to Redis fails).
C1_DuplicateIdKind ==
    \A dev \in DeviceInputs : \A fault \in Faults :
        LET r == addDevice(db, dev, clock, fault) IN
        (IdPresent(db, dev.Id) /\ r.kind # KindDatabaseError)
        => r.kind = DuplicateId

\* C2: without overlap, in every reachable state, a create with a new id
\* and a name a stored record holds fails with DuplicateName (unless a
\* round trip to Redis fails), and the lookup by that name resolves to the
\* first record as before.
C2_DuplicateName ==
    \A dev \in DeviceInputs : \A fault \in Faults :
        LET r == addDevice(db, dev, clock, fault) IN
        (~IdPresent(db, dev.Id) /\ NameHeld(db, dev.Name)
         /\ r.kind # KindDatabaseError)
        => /\ r.kind = KindDuplicateName
           /\ deviceByName(r.db, dev.Name) = deviceByName(db, dev.Name)
           /\ deviceByName(r.db, dev.Name).kind = NoError
           /\ deviceByName(r.db, dev.Name).device.Id # dev.Id
           /\ deviceByName(r.db, dev.Name).device.Name = dev.Name

C2_Witness ==
    /\ ret.op = "addDevice"
    /\ ret.kind = KindDuplicateName
    /\ ret.msg = "device name already exists"
    /\ \E n \in Names : deviceByName(db, n).kind = NoError

\* C3: in every reachable state, a create that fails its id or its name
\* pre-check (the id is in the Id Membership Index, or a stored record
\* holds the name) returns an error and leaves the primary table and every
\* index as they were.
C3_FailedCreateFrame ==
    \A dev \in DeviceInputs : \A fault \in Faults :
        LET r == addDevice(db, dev, clock, fault) IN
        (IdPresent(db, dev.Id) \/ NameHeld(db, dev.Name)
         \/ r.kind = KindDuplicateName)
        => /\ r.kind # NoError
           /\ r.db.strings = db.strings
           /\ r.db.zsets = db.zsets
           /\ r.db.hashes = db.hashes

C3_Witness ==
    /\ ret.op = "addDevice"
    /\ ret.kind = KindDuplicateName
    /\ ret.msg = "device id already exists"
    /\ Cardinality(DOMAIN db.strings) = 2

\* C4 (I1): under any interleaving of creates and deletes, a stored key has
\* a primary object iff it is a member of the Id Membership Index.
C4_I1 ==
    \A k \in StoredKeys :
        k \in DOMAIN db.strings <=> k \in DOMAIN db.zsets[DeviceCollection]

C4_Witness ==
    \E p, q \in Callers :
        /\ pc[p] = "addExec" /\ pc[q] = "delExec"
        /\ local[p].Id = local[q].Id
        /\ deviceStoredKey(local[p].Id) \in DOMAIN db.strings

\* C5 (I3): after any sequence of calls that do not overlap, the stored key
\* of every stored record is in the service bucket of its serviceName, the
\* profile bucket of its profileName and the label bucket of each of its
\* labels, and in no other service, profile or label bucket.
C5_I3 ==
    \A k \in DOMAIN db.strings :
        LET r == Stored(db, k) IN
        /\ \A s \in ServiceNames :
             k \in DOMAIN db.zsets[ServiceKey(s)] <=> s = r.ServiceName
        /\ \A s \in ProfileNames :
             k \in DOMAIN db.zsets[ProfileKey(s)] <=> s = r.ProfileName
        /\ \A l \in LabelNames :
             k \in DOMAIN db.zsets[LabelKey(l)] <=> l \in Range(r.Labels)

C5_Witness ==
    /\ ret.op = "deleteDeviceByName" /\ ret.kind = NoError
    /\ \E k \in DOMAIN db.strings :
         /\ Stored(db, k).Labels = <<"floor1", "temp">>
         /\ k \in DOMAIN db.zsets[LabelKey("temp")]
         /\ Stored(db, k).ServiceName = "svc2"

\* C6 (I2): after any sequence of calls that do not overlap, no two stored
\* records share a name, and the Name Uniqueness Index maps the name of
\* every stored record to its stored key and has no other entry.
C6_I2 ==
    LET names == db.hashes[DeviceCollectionName] IN
    /\ \A k1, k2 \in DOMAIN db.strings :
         Stored(db, k1).Name = Stored(db, k2).Name => k1 = k2
    /\ \A k \in DOMAIN db.strings :
         /\ Stored(db, k).Name \in DOMAIN names
         /\ names[Stored(db, k).Name] = k
    /\ \A n \in DOMAIN names :
         /\ names[n] \in DOMAIN db.strings
         /\ Stored(db, names[n]).Name = n

C6_Witness ==
    /\ ret.op = "deleteDeviceById" /\ ret.kind = NoError
    /\ Cardinality(DOMAIN db.hashes[DeviceCollectionName]) = 1
    /\ Cardinality(DOMAIN db.strings) = 1

\* every entry a create of the record under k makes is there
FullyIndexed(d, k) ==
    LET r == Stored(d, k) IN
    /\ k \in DOMAIN d.zsets[DeviceCollection]
    /\ r.Name \in DOMAIN d.hashes[DeviceCollectionName]
    /\ d.hashes[DeviceCollectionName][r.Name] = k
    /\ k \in DOMAIN d.zsets[ServiceKey(r.ServiceName)]
    /\ d.zsets[ServiceKey(r.ServiceName)][k] = r.Modified
    /\ k \in DOMAIN d.zsets[ProfileKey(r.ProfileName)]
    /\ d.zsets[ProfileKey(r.ProfileName)][k] = r.Modified
    /\ \A l \in Range(r.Labels) :
         /\ k \in DOMAIN d.zsets[LabelKey(l)]
         /\ d.zsets[LabelKey(l)][k] = r.Modified

\* no entry of the delete of the resolved record dev is left
FullyRemoved(d, dev) ==
    LET k == deviceStoredKey(dev.Id) IN
    /\ k \notin DOMAIN d.strings
    /\ k \notin DOMAIN d.zsets[DeviceCollection]
    /\ dev.Name \notin DOMAIN d.hashes[DeviceCollectionName]
    /\ k \notin DOMAIN d.zsets[ServiceKey(dev.ServiceName)]
    /\ k \notin DOMAIN d.zsets[ProfileKey(dev.ProfileName)]
    /\ \A l \in Range(dev.Labels) : k \notin DOMAIN d.zsets[LabelKey(l)]

\* C7 (I4): a mutation is never seen half applied. In the step in which a
\* primary object is written, its id, name, service, profile and label
\* entries are written too; in the step in which a primary object is
\* deleted, every entry of the record the deleting call resolved is removed
\* too; and no step changes an index without writing or deleting a primary
\* object.
C7_Atomic ==
    [][/\ \A k \in DOMAIN db'.strings :
            (k \notin DOMAIN db.strings \/ db.strings[k] # db'.strings[k])
            => FullyIndexed(db', k)
       /\ \A k \in DOMAIN db.strings \ DOMAIN db'.strings :
            \E p \in Callers :
                /\ pc[p] = "delExec"
                /\ deviceStoredKey(local[p].Id) = k
                /\ FullyRemoved(db', local[p])
       /\ db' # db =>
            \E p \in Callers :
                \/ /\ pc[p] = "addExec"
                   /\ deviceStoredKey(local[p].Id) \in DOMAIN db'.strings
                   /\ Stored(db', deviceStoredKey(local[p].Id)) = local[p]
                   /\ FullyIndexed(db', deviceStoredKey(local[p].Id))
                \/ /\ pc[p] = "delExec"
                   /\ FullyRemoved(db', local[p])]_vars

C7_Witness ==
    /\ \E p \in Callers : pc[p] = "delExec"
    /\ \E p \in Callers : pc[p] = "addExec"
    /\ Cardinality(DOMAIN db.strings) = 2

\* C8: two overlapping creates with one name and two ids can both pass both
\* pre-checks and both commit (C8_Witness is reached); when a create
\* commits, its primary object and those stored before it are all there
\* and the Name Uniqueness Index maps its name to its own stored key, so
\* the entry of the shared name is that of the batch that committed last.
C8_LastWriterWins ==
    [][\A p \in Callers :
         (pc[p] = "addExec" /\ pc'[p] = "idle"
          /\ deviceStoredKey(local[p].Id) \in DOMAIN db'.strings
          /\ deviceStoredKey(local[p].Id) \notin DOMAIN db.strings)
         => /\ DOMAIN db'.strings = DOMAIN db.strings
                                     \cup {deviceStoredKey(local[p].Id)}
            /\ \A k \in DOMAIN db.strings : db'.strings[k] = db.strings[k]
            /\ Stored(db', deviceStoredKey(local[p].Id)) = local[p]
            /\ db'.hashes[DeviceCollectionName][local[p].Name]
                 = deviceStoredKey(local[p].Id)]_vars

C8_Witness ==
    \E k1, k2 \in DOMAIN db.strings :
        /\ k1 # k2
        /\ Stored(db, k1).Name = Stored(db, k2).Name
        /\ db.hashes[DeviceCollectionName][Stored(db, k1).Name] = k2
        /\ \A p \in Callers : pc[p] = "idle"

\* C9: without overlap, in every reachable state, a successful
\* deleteDeviceById(id) leaves the id not existing, the record's name out of
\* the Name Uniqueness Index and its stored key in no service, profile or
\* label bucket; every bucket the record was in has exactly one member
\* fewer, every other bucket is unchanged.
C9_FullTeardown ==
    \A id \in Ids : \A fault \in Faults :
        LET r == deleteDeviceById(db, id, fault)
            k == deviceStoredKey(id)
            dev == deviceById(db, id).device
        IN r.kind = NoError
           => /\ ~deviceIdExists(r.db, id)
              /\ deviceById(r.db, id).kind = KindEntityDoesNotExist
              /\ deviceByName(r.db, dev.Name).kind = KindEntityDoesNotExist
              /\ dev.Name \notin DOMAIN r.db.hashes[DeviceCollectionName]
              /\ \A g \in GroupKeys :
                   /\ k \notin DOMAIN r.db.zsets[g]
                   /\ IF k \in DOMAIN db.zsets[g]
                      THEN /\ DOMAIN r.db.zsets[g] = DOMAIN db.zsets[g] \ {k}
                           /\ Cardinality(DOMAIN r.db.zsets[g])
                                = Cardinality(DOMAIN db.zsets[g]) - 1
                      ELSE r.db.zsets[g] = db.zsets[g]
              /\ \A g \in GroupKeys : \A m \in DOMAIN r.db.zsets[g] :
                   r.db.zsets[g][m] = db.zsets[g][m]

C9_Witness ==
    /\ ret.op = "deleteDeviceById" /\ ret.kind = NoError
    /\ \E g \in LabelKeys : Cardinality(DOMAIN db.zsets[g]) = 1
    /\ Cardinality(DOMAIN db.strings) = 1

Min(a, b) == IF a < b THEN a ELSE b

\* positions [k, k+m) of the listing full, cut at its end
Slice(full, k, m) == SubSeq(full, k + 1, Min(k + m, Len(full)))

\* the query res is the slice [k, k+m) of the listing full
IsSlice(res, full, k, m) ==
    /\ res.kind = NoError
    /\ Len(res.devices) = Min(m, Len(full) - k)
    /\ res.devices = Slice(full, k, m)

\* C10: in every reachable state, for every group query (by service, by
\* profile, by labels), every offset k from 0 to the size N of the group and
\* every limit m >= 0, the query returns min(m, N-k) records, those at the
\* positions [k, k+m) of what it returns with offset 0 and limit -1.
C10_Pagination ==
    \A k \in Offsets : \A m \in Limits \ {-1} :
        /\ \A name \in ServiceNames :
             LET full == devicesByServiceName(db, 0, -1, name, "none").devices IN
             k <= Len(full) =>
                IsSlice(devicesByServiceName(db, k, m, name, "none"), full, k, m)
        /\ \A name \in ProfileNames :
             LET full == devicesByProfileName(db, 0, -1, name, "none").devices IN
             k <= Len(full) =>
                IsSlice(devicesByProfileName(db, k, m, name, "none"), full, k, m)
        /\ \A labels \in LabelLists :
             LET full == devicesByLabels(db, 0, -1, labels, "none").devices IN
             k <= Len(full) =>
                IsSlice(devicesByLabels(db, k, m, labels, "none"), full, k, m)

\* the records of the sorted set z by descending score (ties by descending
\* stored key): the descending listing of a group
Listing(d, z) == [i \in 1..Len(RevList(z)) |-> Stored(d, RevList(z)[i])]

\* the group of a label query: the stored records that carry every label of
\* the list, scored by their Modified (the whole collection, scored 0, for
\* the empty list)
LabelGroup(d, labels) ==
    [k \in {k \in DOMAIN d.strings :
               Range(labels) \subseteq Range(Stored(d, k).Labels)} |->
        IF labels = <<>> THEN 0 ELSE Stored(d, k).Modified]

\* the query res returns the positions k .. N-1 of the listing full
IsRest(res, full, k) ==
    /\ res.kind = NoError
    /\ Len(res.devices) = Len(full) - k
    /\ res.devices = SubSeq(full, k + 1, Len(full))

\* C11: in every reachable state, for every group query (by service, by
\* profile, by labels) on a group of N members and every offset k with
\* 0 <= k < N, limit -1 returns exactly the N-k records at the positions
\* k .. N-1 of the group's descending listing.
C11_AllRemaining ==
    \A k \in Offsets :
        /\ \A name \in ServiceNames :
             LET full == Listing(db, db.zsets[ServiceKey(name)]) IN
             k < Len(full) =>
                IsRest(devicesByServiceName(db, k, -1, name, "none"), full, k)
        /\ \A name \in ProfileNames :
             LET full == Listing(db, db.zsets[ProfileKey(name)]) IN
             k < Len(full) =>
                IsRest(devicesByProfileName(db, k, -1, name, "none"), full, k)
        /\ \A labels \in LabelLists :
             LET full == Listing(db, LabelGroup(db, labels)) IN
             k < Len(full) =>
                IsRest(devicesByLabels(db, k, -1, labels, "none"), full, k)

C11_Witness ==
    /\ ret.op = "devicesByServiceName" /\ ret.kind = NoError
    /\ \E name \in ServiceNames :
         LET full == Listing(db, db.zsets[ServiceKey(name)]) IN
         /\ Len(full) = 2
         /\ full[1].Modified > full[2].Modified
         /\ ret.devices = <<full[2]>>
         /\ ret.devices = devicesByServiceName(db, 1, -1, name, "none").devices

\* the query res is empty and reports no error
IsEmptyResult(res) == res.kind = NoError /\ res.devices = <<>>

\* C12: in every reachable state, a group query (by service, by profile, by
\* labels) whose group is empty, or whose offset is at or beyond the size of
\* its group, returns an empty list and no error, for every limit (-1, 0 or
\* more).
C12_EmptyResult ==
    \A k \in Offsets : \A m \in Limits :
        /\ \A name \in ServiceNames :
             k >= Cardinality(DOMAIN db.zsets[ServiceKey(name)])
             => IsEmptyResult(devicesByServiceName(db, k, m, name, "none"))
        /\ \A name \in ProfileNames :
             k >= Cardinality(DOMAIN db.zsets[ProfileKey(name)])
             => IsEmptyResult(devicesByProfileName(db, k, m, name, "none"))
        /\ \A labels \in LabelLists :
             k >= Cardinality(DOMAIN LabelGroup(db, labels))
             => IsEmptyResult(devicesByLabels(db, k, m, labels, "none"))

\* a query by service returned nothing while every service has a device:
\* its offset was beyond the size of its group
C12_Witness ==
    /\ ret.op = "devicesByServiceName"
    /\ IsEmptyResult(ret)
    /\ \A name \in ServiceNames :
         Cardinality(DOMAIN db.zsets[ServiceKey(name)]) = 1

\* the label lists a label query is asked with
LabelQueries ==
    {<<>>, <<"floor1">>, <<"temp">>, <<"floor1", "temp">>,
     <<"temp", "floor1">>, <<"temp", "temp">>}

\* the stored records that carry every label of the list
Carrying(d, labels) ==
    {Stored(d, k) : k \in {k \in DOMAIN d.strings :
                              Range(labels) \subseteq Range(Stored(d, k).Labels)}}

\* C13: in every reachable state, devicesByLabels(L, 0, -1) returns, once
\* each, exactly the stored records whose labels contain every label of L;
\* so a record with the labels floor1 and temp is returned for [floor1],
\* for [temp] and for [floor1, temp], and a record with the label floor1
\* only is not returned for [floor1, temp].
C13_LabelIntersection ==
    /\ \A labels \in LabelQueries :
         LET res == devicesByLabels(db, 0, -1, labels, "none") IN
         /\ res.kind = NoError
         /\ Range(res.devices) = Carrying(db, labels)
         /\ Len(res.devices) = Cardinality(Carrying(db, labels))
    /\ \A k \in DOMAIN db.strings :
         LET r == Stored(db, k)
             in(labels) == r \in Range(devicesByLabels(db, 0, -1, labels, "none").devices)
         IN /\ r.Labels = <<"floor1", "temp">>
               => in(<<"floor1">>) /\ in(<<"temp">>) /\ in(<<"floor1", "temp">>)
            /\ r.Labels = <<"floor1">> => ~in(<<"floor1", "temp">>)

C13_Witness ==
    /\ ret.op = "devicesByLabels" /\ ret.kind = NoError
    /\ Len(ret.devices) = 1
    /\ ret.devices[1].Labels = <<"floor1", "temp">>
    /\ ret.devices = devicesByLabels(db, 0, -1, <<"floor1", "temp">>, "none").devices
    /\ \E k \in DOMAIN db.strings : Stored(db, k).Labels = <<"floor1">>

\* the fields of a record a create does not assign
SameButTimes(a, b) ==
    /\ a.Id = b.Id
    /\ a.Name = b.Name
    /\ a.ServiceName = b.ServiceName
    /\ a.ProfileName = b.ProfileName
    /\ a.Labels = b.Labels

\* C14: in every reachable state, after a successful addDevice(dev) both
\* deviceById(dev.Id) and deviceByName(dev.Name) succeed and return a record
\* whose id, name, serviceName, profileName and labels are those of dev
\* (created and modified are the store's).
C14_RoundTrip ==
    \A dev \in DeviceInputs : \A fault \in Faults :
        LET r == addDevice(db, dev, clock, fault) IN
        r.kind = NoError
        => /\ deviceById(r.db, dev.Id).kind = NoError
           /\ SameButTimes(deviceById(r.db, dev.Id).device, dev)
           /\ deviceByName(r.db, dev.Name).kind = NoError
           /\ SameButTimes(deviceByName(r.db, dev.Name).device, dev)

C14_Witness ==
    /\ ret.op = "addDevice" /\ ret.kind = NoError
    /\ \E dev \in DeviceInputs :
         /\ dev.Labels = <<"temp", "temp">>
         /\ deviceById(db, dev.Id).device = Stamped(dev, clock)
         /\ deviceByName(db, dev.Name).device = Stamped(dev, clock)
         /\ Stamped(dev, clock) # dev

\* the call fails with NotFound and the keyspace is as before
NotFoundUnchanged(r, d) ==
    /\ r.kind = KindEntityDoesNotExist
    /\ r.db = d

\* C15: in every reachable state, deleteDeviceById of an id that is not
\* stored and deleteDeviceByName of a name that is not in the Name
\* Uniqueness Index fail with NotFound and leave the keyspace unchanged,
\* also when a batch would fail (none is sent); and after a successful
\* delete of a record a second delete by its id or by its name fails with
\* NotFound and changes nothing.
C15_DeleteMissing ==
    /\ \A id \in Ids : \A fault \in {"none", "exec"} :
         deviceStoredKey(id) \notin DOMAIN db.strings
         => NotFoundUnchanged(deleteDeviceById(db, id, fault), db)
    /\ \A name \in Names : \A fault \in {"none", "exec"} :
         name \notin DOMAIN db.hashes[DeviceCollectionName]
         => NotFoundUnchanged(deleteDeviceByName(db, name, fault), db)
    /\ \A id \in Ids :
         LET r == deleteDeviceById(db, id, "none")
             dev == deviceById(db, id).device
         IN r.kind = NoError
            => /\ NotFoundUnchanged(deleteDeviceById(r.db, id, "none"), r.db)
               /\ NotFoundUnchanged(deleteDeviceByName(r.db, dev.Name, "none"), r.db)
    /\ \A name \in Names :
         LET r == deleteDeviceByName(db, name, "none")
             dev == deviceByName(db, name).device
         IN r.kind = NoError
            => /\ NotFoundUnchanged(deleteDeviceByName(r.db, name, "none"), r.db)
               /\ NotFoundUnchanged(deleteDeviceById(r.db, dev.Id, "none"), r.db)

C15_Witness ==
    /\ ret.op = "deleteDeviceByName"
    /\ ret.kind = KindEntityDoesNotExist
    /\ Cardinality(DOMAIN db.strings) = 1
    /\ \E id \in Ids : deleteDeviceById(db, id, "none").kind = KindEntityDoesNotExist

\* the call fails with DatabaseError; the primary table, the Id Membership
\* Index and the service, profile and label buckets (the sorted sets) and
\* the Name Uniqueness Index (the hash) are as before
DatabaseErrorUnchanged(r, d) ==
    /\ r.kind = KindDatabaseError
    /\ r.db.strings = d.strings
    /\ r.db.zsets = d.zsets
    /\ r.db.hashes = d.hashes

\* C16: in every reachable state, a create or a delete that gets as far as
\* its batch and whose batch fails returns DatabaseError, and the primary
\* table and the five index structures at its return are those before the
\* call (nothing is written again or written back).
C16_FailedBatch ==
    /\ \A dev \in DeviceInputs :
         addDevice(db, dev, clock, "none").kind = NoError
         => DatabaseErrorUnchanged(addDevice(db, dev, clock, "exec"), db)
    /\ \A id \in Ids :
         deleteDeviceById(db, id, "none").kind = NoError
         => DatabaseErrorUnchanged(deleteDeviceById(db, id, "exec"), db)
    /\ \A name \in Names :
         deleteDeviceByName(db, name, "none").kind = NoError
         => DatabaseErrorUnchanged(deleteDeviceByName(db, name, "exec"), db)

C16_Witness ==
    /\ ret.op = "deleteDeviceByName"
    /\ ret.kind = KindDatabaseError
    /\ ret.msg = "device deletion failed"
    /\ Cardinality(DOMAIN db.strings) = 1
    /\ \E dev \in DeviceInputs :
         /\ addDevice(db, dev, clock, "none").kind = NoError
         /\ addDevice(db, dev, clock, "exec").kind = KindDatabaseError

\* consecutive records of the list have strictly falling Modified
StrictlyDescending(devices) ==
    \A i \in 1..(Len(devices) - 1) : devices[i].Modified > devices[i + 1].Modified

\* consecutive records of the list have Modified that does not rise
Descending(devices) ==
    \A i \in 1..(Len(devices) - 1) : devices[i].Modified >= devices[i + 1].Modified

\* C17 (as claimed): in every state reachable by creates that do not
\* overlap, also creates that read the same timestamp, the list a query by
\* service or by profile returns is strictly ordered by descending
\* modified.
C17_StrictOrder ==
    \A k \in Offsets : \A m \in Limits :
        /\ \A name \in ServiceNames :
             StrictlyDescending(devicesByServiceName(db, k, m, name, "none").devices)
        /\ \A name \in ProfileNames :
             StrictlyDescending(devicesByProfileName(db, k, m, name, "none").devices)

\* C17 (amended): in every state reachable by creates that do not overlap,
\* in the list a query by service or by profile returns the modified of a
\* record is never smaller than that of the record after it (two creates
\* that read the same timestamp give two records with equal modified).
C17_Order ==
    \A k \in Offsets : \A m \in Limits :
        /\ \A name \in ServiceNames :
             Descending(devicesByServiceName(db, k, m, name, "none").devices)
        /\ \A name \in ProfileNames :
             Descending(devicesByProfileName(db, k, m, name, "none").devices)

C17_Witness ==
    /\ ret.op = "devicesByProfileName" /\ ret.kind = NoError
    /\ Len(ret.devices) = 2
    /\ ret.devices[1].Modified = ret.devices[2].Modified
    /\ ret.devices[1].Id # ret.devices[2].Id
    /\ clock = MaxTime

\* C18: in every reachable state, a successful addDevice(dev) that reads
\* the timestamp ts stores the record with Modified = ts and with Created =
\* dev.Created when that is not 0 and = ts otherwise, and the score of its
\* stored key in the bucket of its service, of its profile and of each of
\* its labels is the stored Modified.
C18_Timestamps ==
    \A dev \in DeviceInputs :
        LET r == addDevice(db, dev, clock, "none")
            k == deviceStoredKey(dev.Id)
        IN r.kind = NoError
           => /\ k \in DOMAIN r.db.strings
              /\ Stored(r.db, k).Modified = clock
              /\ Stored(r.db, k).Created
                   = (IF dev.Created # 0 THEN dev.Created ELSE clock)
              /\ r.db.zsets[ServiceKey(dev.ServiceName)][k] = Stored(r.db, k).Modified
              /\ r.db.zsets[ProfileKey(dev.ProfileName)][k] = Stored(r.db, k).Modified
              /\ \A l \in Range(dev.Labels) :
                   r.db.zsets[LabelKey(l)][k] = Stored(r.db, k).Modified

C18_Witness ==
    /\ ret.op = "addDevice" /\ ret.kind = NoError
    /\ clock = 2
    /\ \E k \in DOMAIN db.strings :
         /\ Stored(db, k).Created = 7
         /\ Stored(db, k).Modified = 2
         /\ db.zsets[ServiceKey(Stored(db, k).ServiceName)][k] = 2
    /\ \E k \in DOMAIN db.strings :
         /\ Stored(db, k).Created = 1
         /\ Stored(db, k).Modified = 1
         /\ Stored(db, k).Labels # <<>>

\* the primary table, the id index, the buckets and the name index of the
\* two keyspaces are the same
SameStore(a, b) ==
    /\ a.strings = b.strings
    /\ \A g \in ZSetKeys : a.zsets[g] = b.zsets[g]
    /\ a.hashes[DeviceCollectionName] = b.hashes[DeviceCollectionName]

\* C19: without overlap, in every reachable state, a successful
\* addDevice(dev) followed at once by a deleteDeviceById(dev.Id) or by a
\* deleteDeviceByName(dev.Name) makes the delete succeed and leaves the
\* primary table, the id index, the name index and every service, profile
\* and label bucket as they were before the create, also for a dev whose
\* labels repeat a label or are empty.
C19_CreateDelete ==
    \A dev \in DeviceInputs :
        LET r == addDevice(db, dev, clock, "none")
            byId == deleteDeviceById(r.db, dev.Id, "none")
            byName == deleteDeviceByName(r.db, dev.Name, "none")
        IN r.kind = NoError
           => /\ byId.kind = NoError
              /\ SameStore(byId.db, db)
              /\ byName.kind = NoError
              /\ SameStore(byName.db, db)

C19_Witness ==
    /\ ret.op = "deleteDeviceByName" /\ ret.kind = NoError
    /\ Cardinality(DOMAIN db.strings) = 1
    /\ \E k \in DOMAIN db.strings : Stored(db, k).Labels = <<"floor1">>
    /\ \E dev \in DeviceInputs :
         /\ dev.Labels = <<"temp", "temp">>
         /\ addDevice(db, dev, clock, "none").kind = NoError
         /\ addDevice(db, dev, clock, "none").db # db
         /\ deleteDeviceByName(addDevice(db, dev, clock, "none").db,
                               dev.Name, "none").db = db
    /\ \E dev \in DeviceInputs :
         /\ dev.Labels = <<>>
         /\ addDevice(db, dev, clock, "none").kind = NoError

\* C20: under any interleaving of overlapping creates and deletes (each
\* pre-check, each resolution and each batch one step), every member of a
\* service, profile or label bucket is the stored key of a stored record
\* with that serviceName, profileName or label, and every entry of the Name
\* Uniqueness Index maps a name to the stored key of a stored record that
\* has that name.
C20_NoStaleEntry ==
    /\ \A s \in ServiceNames : \A k \in DOMAIN db.zsets[ServiceKey(s)] :
         k \in DOMAIN db.strings /\ Stored(db, k).ServiceName = s
    /\ \A s \in ProfileNames : \A k \in DOMAIN db.zsets[ProfileKey(s)] :
         k \in DOMAIN db.strings /\ Stored(db, k).ProfileName = s
    /\ \A l \in LabelNames : \A k \in DOMAIN db.zsets[LabelKey(l)] :
         k \in DOMAIN db.strings /\ l \in Range(Stored(db, k).Labels)
    /\ \A n \in DOMAIN db.hashes[DeviceCollectionName] :
         LET k == db.hashes[DeviceCollectionName][n] IN
         k \in DOMAIN db.strings /\ Stored(db, k).Name = n

====
